---- MODULE Spec2Model ----
(***************************************************************************)
(* Lattice ECDSA attack (bitlogik/lattice-attack): the HNP lattice         *)
(* builder, the candidate extractor and the recovery driver of             *)
(* lattice_attack.py, with the helpers of ecdsa_lib.py they call.          *)
(*                                                                         *)
(* Python integers are unbounded and the five supported curves have        *)
(* orders of 224..521 bits; TLC integers are 32-bit.  The arithmetic of    *)
(* build_matrix, inverse_mod and test_result is therefore run on two       *)
(* prime-order curves over small fields (TOY4, TOY6), which keep what the  *)
(* code relies on: n is an odd prime, the bit-size is that of the field,   *)
(* d |-> d*G is injective on 1..n-1 and (n-d)*G = -(d*G).  The bit-sizes   *)
(* of the five supported curves are kept as they are, for                  *)
(* minimum_sigs_required.                                                  *)
(*                                                                         *)
(* Matrices are sequences of rows, indexed from 1: the code's L[i,j] is    *)
(* lattice[i+1][j+1] here.                                                 *)
(***************************************************************************)
EXTENDS Integers, Sequences, FiniteSets, TLC

VARIABLES
    signatures_data,   \* the full pool of samples given to recover_private_key
    h_int,             \* the global hash, or None
    pub_key,           \* the target public point
    curve,             \* the curve name
    bits_type,         \* "LSB" or "MSB"
    num_bits,          \* the leakage width
    loop,              \* the loop flag
    pc,                \* the position in the running function
    n_sigs,            \* recover_private_key: n_sigs
    sample_idx,        \* the positions of the pool random.sample picked, in order
    sigs_data,         \* recover_private_key: sigs_data (the working subset)
    lattice,           \* recover_private_key: lattice
    effort,            \* index in RECOVERY_SEQUENCE of the current schedule step
    res,               \* recover_private_key: res
    ret,               \* the value returned (Python's False is the integer 0)
    outcome,           \* why the run ended
    steps,             \* the reductions of the current attempt, in order: the
                       \*   block size, the matrix passed, the matrix returned
                       \*   and what test_result then said (None until it ran)
    calls,             \* how many times each callee was invoked in the run
    data,              \* lattice_attack_cli: the object json.load returned
    euclid             \* inverse_mod: its arguments and the locals of its loop

vars == <<signatures_data, h_int, pub_key, curve, bits_type, num_bits, loop,
          pc, n_sigs, sample_idx, sigs_data, lattice, effort, res, ret,
          outcome, steps, calls, data, euclid>>

\* the state of the entry points other than the one that is running
other == <<data, euclid>>

inputs == <<signatures_data, h_int, pub_key, curve, bits_type, num_bits, loop>>

(***************************************************************************)
(* Bounds of the model.                                                    *)
(***************************************************************************)
MaxPool == 3        \* the longest signature pool
MaxNumBits == 6     \* the largest leakage width given to the driver
MaxKey == 2         \* private keys 1..MaxKey (and n-1) are the targets
MaxAttempts == 2    \* outer-loop iterations explored when loop is set

(***************************************************************************)
(* Python's None and optional values.                                      *)
(***************************************************************************)
None == <<>>
Some(x) == <<x>>

\* no JSON object loaded, inverse_mod not called
NoData == <<>>
NoFrame == <<>>

RECURSIVE Pow2(_)
Pow2(e) == IF e = 0 THEN 1 ELSE 2 * Pow2(e - 1)

(***************************************************************************)
(* ecdsa_lib: the curve tables.                                            *)
(***************************************************************************)
CurveNames == {"SECP224R1", "SECP256K1", "SECP256R1", "SECP384R1", "SECP521R1"}
ToyCurves == {"TOY4", "TOY6"}

\* curve_obj.key_size: the bit-size of the curve's field
curve_size(curve_name) ==
    CASE curve_name = "SECP224R1" -> 224
      [] curve_name = "SECP256K1" -> 256
      [] curve_name = "SECP256R1" -> 256
      [] curve_name = "SECP384R1" -> 384
      [] curve_name = "SECP521R1" -> 521
      [] curve_name = "TOY4" -> 4
      [] curve_name = "TOY6" -> 6

\* the order table, for the scaled-down curves:
\*   TOY4: y^2 = x^3 + x + 6 over F_11, 13 points
\*   TOY6: y^2 = x^3 + 2x + 6 over F_41, 37 points
CURVES_ORDER == [c \in ToyCurves |-> IF c = "TOY4" THEN 13 ELSE 37]

curve_n(curve_name) == CURVES_ORDER[curve_name]

(***************************************************************************)
(* The curve library behind privkey_to_pubkey: scalar multiplication of    *)
(* the base point, on the scaled-down curves.                              *)
(***************************************************************************)
FieldP == [c \in ToyCurves |-> IF c = "TOY4" THEN 11 ELSE 41]
CoefA == [c \in ToyCurves |-> IF c = "TOY4" THEN 1 ELSE 2]
BasePoint == [c \in ToyCurves |-> IF c = "TOY4" THEN <<2, 7>> ELSE <<1, 3>>]
Infinity == <<>>

FieldInv(a, p) == CHOOSE x \in 1..(p - 1) : ((a % p) * x) % p = 1

PointAdd(P, Q, c) ==
    LET p == FieldP[c] IN
    IF P = Infinity THEN Q
    ELSE IF Q = Infinity THEN P
    ELSE IF P[1] = Q[1] /\ (P[2] + Q[2]) % p = 0 THEN Infinity
    ELSE LET l == IF P = Q
                  THEN ((3 * P[1] * P[1] + CoefA[c]) * FieldInv(2 * P[2], p)) % p
                  ELSE ((Q[2] - P[2]) * FieldInv(Q[1] - P[1], p)) % p
             x3 == (l * l - P[1] - Q[1]) % p
         IN <<x3, (l * (P[1] - x3) - P[2]) % p>>

RECURSIVE ScalarMult(_, _)
ScalarMult(d, c) ==
    IF d = 0 THEN Infinity ELSE PointAdd(ScalarMult(d - 1, c), BasePoint[c], c)

PublicPoints == [c \in ToyCurves |-> [d \in 1..(curve_n(c) - 1) |-> ScalarMult(d, c)]]

\* [pubkey.x, pubkey.y] of pv_key_int * G
privkey_to_pubkey(pv_key_int, curve_name) == PublicPoints[curve_name][pv_key_int]

(***************************************************************************)
(* ecdsa_lib.inverse_mod: the extended Euclid loop.  divmod by 0 raises    *)
(* ZeroDivisionError; the loop's result is <<"ok", x_a>> or the exception. *)
(***************************************************************************)
RECURSIVE EuclidLoop(_, _, _, _)
EuclidLoop(i, j, x_a, x_b) ==
    IF i = 1 THEN <<"ok", x_a>>
    ELSE IF i = 0 THEN <<"ZeroDivisionError", 0>>
    ELSE LET quot == j \div i
             rem == j % i
             x_rem == x_b - quot * x_a
         IN EuclidLoop(rem, i, x_rem, x_a)

InverseRun(a_num, m_mod) ==
    LET a == IF a_num < 0 \/ m_mod <= a_num THEN a_num % m_mod ELSE a_num
    IN EuclidLoop(a, m_mod, 1, 0)

inverse_mod_raises(a_num, m_mod) == InverseRun(a_num, m_mod)[1] # "ok"

inverse_mod(a_num, m_mod) == InverseRun(a_num, m_mod)[2] % m_mod

(***************************************************************************)
(* lattice_attack.reduce_lattice: LLL when block_size is None, BKZ         *)
(* otherwise.  The reduction library is an oracle: it returns some basis   *)
(* of the same lattice.  The bases it may return here are the input and    *)
(* the input with the unit row (the code's row m) subtracted from the      *)
(* last row: a unimodular step, which moves the second-to-last column the  *)
(* extractor reads.                                                        *)
(***************************************************************************)
RowAdd(mat, src, dst, coef) ==
    [mat EXCEPT ![dst] = [j \in 1..Len(mat[dst]) |-> mat[dst][j] + coef * mat[src][j]]]

reduction_name(block_size) == IF block_size = None THEN "LLL" ELSE "BKZ"

reduce_lattice(mat, block_size) ==
    LET rows == Len(mat) IN
    {mat, RowAdd(mat, rows - 1, rows, 0 - 1)}

(***************************************************************************)
(* lattice_attack.test_result                                              *)
(***************************************************************************)
\* the extractor without the test of n - c
RECURSIVE ScanRows_no_complement(_, _, _, _)
ScanRows_no_complement(mat, k, target_pubkey, curve_name) ==
    IF k > Len(mat) THEN 0
    ELSE LET mod_n == curve_n(curve_name)
             row == mat[k]
             candidate == row[Len(row) - 1] % mod_n
         IN IF candidate > 0 /\ target_pubkey = privkey_to_pubkey(candidate, curve_name)
            THEN candidate
            ELSE ScanRows_no_complement(mat, k + 1, target_pubkey, curve_name)

RECURSIVE ScanRows(_, _, _, _)
ScanRows(mat, k, target_pubkey, curve_name) ==
    IF k > Len(mat) THEN 0
    ELSE LET mod_n == curve_n(curve_name)
             row == mat[k]
             candidate == row[Len(row) - 1] % mod_n
             cand1 == candidate
             cand2 == mod_n - candidate
         IN IF candidate > 0 /\ target_pubkey = privkey_to_pubkey(cand1, curve_name)
            THEN cand1
            ELSE IF candidate > 0 /\ target_pubkey = privkey_to_pubkey(cand2, curve_name)
            THEN cand2
            ELSE ScanRows(mat, k + 1, target_pubkey, curve_name)

test_result(mat, target_pubkey, curve_name) == ScanRows(mat, 1, target_pubkey, curve_name)

(***************************************************************************)
(* lattice_attack.build_matrix.  A sample is a record [r, s, kp, hash],    *)
(* hash being None when the sample carries no "hash" key.                  *)
(* build_matrix_raises is the exception the loop over the samples ends     *)
(* with ("none" when it ends normally); build_matrix is the matrix         *)
(* returned when it does.                                                  *)
(***************************************************************************)
SampleRaises(sig, n_order, hash_val) ==
    IF hash_val = None /\ sig.hash = None THEN "KeyError"
    ELSE IF inverse_mod_raises(sig.s, n_order) THEN "ZeroDivisionError"
    ELSE "none"

RECURSIVE FirstRaise(_, _, _, _)
FirstRaise(sigs, i, n_order, hash_val) ==
    IF i > Len(sigs) THEN "none"
    ELSE IF SampleRaises(sigs[i], n_order, hash_val) # "none"
         THEN SampleRaises(sigs[i], n_order, hash_val)
         ELSE FirstRaise(sigs, i + 1, n_order, hash_val)

build_matrix_raises(sigs, curve_name, nbits, btype, hash_val) ==
    FirstRaise(sigs, 1, curve_n(curve_name), hash_val)

\* the cardinality of one curve, hard-coded for all
curve_card_fixed(curve_name) == Pow2(curve_size("TOY6"))

\* curve_card = 2 ** ecdsa_lib.curve_size(curve)
curve_card(curve_name) == Pow2(curve_size(curve_name))

\* LSB: lattice[num_sigs, i]
lsb_row_m(sig, kbi, n_order) ==
    2 * kbi
    * ((inverse_mod(kbi, n_order) * (sig.r * inverse_mod(sig.s, n_order)))
       % n_order)

\* LSB: lattice[num_sigs + 1, i]
lsb_row_m1(sig, hash_i, kbi, n_order) ==
    2 * kbi
    * ((inverse_mod(kbi, n_order) * (sig.kp - hash_i * inverse_mod(sig.s, n_order)))
       % n_order)
    + n_order

\* MSB: lattice[num_sigs, i]
msb_row_m(sig, kbi, n_order) ==
    2 * kbi * ((sig.r * inverse_mod(sig.s, n_order)) % n_order)

\* the last row without its + n offset
msb_row_m1_no_offset(sig, hash_i, kbi, card, n_order) ==
    2 * kbi
    * (sig.kp * (card \div kbi) - hash_i * inverse_mod(sig.s, n_order))

\* MSB: lattice[num_sigs + 1, i]
msb_row_m1(sig, hash_i, kbi, card, n_order) ==
    2 * kbi
    * (sig.kp * (card \div kbi) - hash_i * inverse_mod(sig.s, n_order))
    + n_order

build_matrix(sigs, curve_name, nbits, btype, hash_val) ==
    LET num_sigs == Len(sigs)
        n_order == curve_n(curve_name)
        card == curve_card(curve_name)
        kbi == Pow2(nbits)
        hash_i(i) == IF hash_val # None THEN hash_val[1] ELSE sigs[i].hash[1]
    IN [i \in 1..(num_sigs + 2) |-> [j \in 1..(num_sigs + 2) |->
          IF i <= num_sigs /\ j = i THEN 2 * kbi * n_order
          ELSE IF i = num_sigs + 1 /\ j <= num_sigs
               THEN (IF btype = "LSB"
                     THEN lsb_row_m(sigs[j], kbi, n_order)
                     ELSE msb_row_m(sigs[j], kbi, n_order))
          ELSE IF i = num_sigs + 2 /\ j <= num_sigs
               THEN (IF btype = "LSB"
                     THEN lsb_row_m1(sigs[j], hash_i(j), kbi, n_order)
                     ELSE msb_row_m1(sigs[j], hash_i(j), kbi, card, n_order))
          ELSE IF i = num_sigs + 1 /\ j = num_sigs + 1 THEN 1
          ELSE IF i = num_sigs + 2 /\ j = num_sigs + 2 THEN n_order
          ELSE 0]]

(***************************************************************************)
(* lattice_attack: the driver's constants and minimum_sigs_required.       *)
(* SIGNATURES_NUMBER_MARGIN * 4 / 3 * curve_size / num_bits is a float;    *)
(* int() truncates it.  103*B/(75*num_bits) is never an integer for the    *)
(* bit-sizes here and never closer than 1/(75*num_bits) to one, far more   *)
(* than the float error, so the truncated float is the integer quotient.   *)
(***************************************************************************)
\* a threshold one too low
MINIMUM_BITS_low == 4 - 1

MINIMUM_BITS == 4
RECOVERY_SEQUENCE == <<None, Some(15), Some(25), Some(40), Some(50), Some(60)>>

\* the bound rounded up instead of truncated
minimum_sigs_required_ceil(nbits, curve_name) ==
    (103 * 4 * curve_size(curve_name) + 100 * 3 * nbits - 1) \div (100 * 3 * nbits)

minimum_sigs_required(nbits, curve_name) ==
    (103 * 4 * curve_size(curve_name)) \div (100 * 3 * nbits)

(***************************************************************************)
(* random.sample(population, k): k distinct positions of the population,   *)
(* in any order; the population is left as it is.                          *)
(***************************************************************************)
\* sampling with replacement
random_sample_replacing(population, k) == [1..k -> 1..Len(population)]

random_sample(population, k) ==
    {idx \in [1..k -> 1..Len(population)] :
        \A a, b \in 1..k : a # b => idx[a] # idx[b]}

(***************************************************************************)
(* The inputs of a run.  The pool is the first len samples of a fixed      *)
(* list; bad > 0 replaces the s of sample bad by n, which has no inverse.  *)
(***************************************************************************)
SampleAt(c, i) ==
    LET n == curve_n(c) IN
    [r |-> 1 + ((3 * i) % (n - 1)),
     s |-> 1 + ((5 * i) % (n - 1)),
     kp |-> (7 * i) % 16,
     hash |-> Some((9 * i * i) % (2 * n + 1))]

Pool(c, len, bad) ==
    [i \in 1..len |-> IF i = bad THEN [SampleAt(c, i) EXCEPT !.s = curve_n(c)]
                                 ELSE SampleAt(c, i)]

Pools(c) == {Pool(c, len, bad) : len \in 0..MaxPool, bad \in {0, 1}}

Keys(c) == (1..MaxKey) \cup {curve_n(c) - 1}

NoCalls == [minimum_sigs_required |-> 0, sample |-> 0, build_matrix |-> 0,
            reduce_lattice |-> 0, test_result |-> 0]

Idle ==
    /\ n_sigs = 0
    /\ sample_idx = <<>>
    /\ sigs_data = <<>>
    /\ lattice = <<>>
    /\ effort = 0
    /\ res = 0
    /\ ret = 0
    /\ outcome = "running"
    /\ steps = <<>>
    /\ calls = NoCalls

Init ==
    /\ curve \in ToyCurves
    /\ signatures_data \in Pools(curve)
    /\ h_int \in {None, Some(5)}
    /\ pub_key \in {privkey_to_pubkey(d, curve) : d \in Keys(curve)}
    /\ bits_type \in {"LSB", "MSB"}
    /\ num_bits \in (0 - 1)..MaxNumBits
    /\ loop \in BOOLEAN
    /\ pc = "check_bits"
    /\ Idle
    /\ data = NoData /\ euclid = NoFrame

Called(f) == [calls EXCEPT ![f] = @ + 1]

Return(value, why) ==
    /\ pc' = "done"
    /\ ret' = value
    /\ outcome' = why

(***************************************************************************)
(* recover_private_key, one action per step.                               *)
(***************************************************************************)
\* if num_bits < MINIMUM_BITS: return False
CheckBits ==
    /\ pc = "check_bits"
    /\ IF num_bits < MINIMUM_BITS
       THEN Return(0, "InsufficientLeakage")
       ELSE pc' = "check_sigs" /\ UNCHANGED <<ret, outcome>>
    /\ UNCHANGED <<other, inputs, n_sigs, sample_idx, sigs_data, lattice, effort, res,
                   steps, calls>>

\* the comparison off by one: n_sigs >= len(signatures_data)
CheckSigs_strict ==
    /\ pc = "check_sigs"
    /\ n_sigs' = minimum_sigs_required(num_bits, curve)
    /\ calls' = Called("minimum_sigs_required")
    /\ IF n_sigs' >= Len(signatures_data)
       THEN Return(0, "NotEnoughSignatures")
       ELSE pc' = "sample" /\ UNCHANGED <<ret, outcome>>
    /\ UNCHANGED <<other, inputs, sample_idx, sigs_data, lattice, effort, res, steps>>

\* n_sigs = minimum_sigs_required(...); if n_sigs > len(signatures_data): return False
CheckSigs ==
    /\ pc = "check_sigs"
    /\ n_sigs' = minimum_sigs_required(num_bits, curve)
    /\ calls' = Called("minimum_sigs_required")
    /\ IF n_sigs' > Len(signatures_data)
       THEN Return(0, "NotEnoughSignatures")
       ELSE pc' = "sample" /\ UNCHANGED <<ret, outcome>>
    /\ UNCHANGED <<other, inputs, sample_idx, sigs_data, lattice, effort, res, steps>>

\* while loop_var: sigs_data = random.sample(signatures_data, n_sigs)
Sample ==
    /\ pc = "sample"
    /\ calls.sample < MaxAttempts
    /\ \E idx \in random_sample(signatures_data, n_sigs) :
         /\ sample_idx' = idx
         /\ sigs_data' = [i \in 1..n_sigs |-> signatures_data[idx[i]]]
    /\ calls' = Called("sample")
    /\ steps' = <<>>
    /\ pc' = "build"
    /\ UNCHANGED <<other, inputs, n_sigs, lattice, effort, res, ret, outcome>>

\* lattice = build_matrix(sigs_data, curve, num_bits, bits_type, h_int)
Build ==
    /\ pc = "build"
    /\ calls' = Called("build_matrix")
    /\ IF build_matrix_raises(sigs_data, curve, num_bits, bits_type, h_int) # "none"
       THEN /\ Return(0, build_matrix_raises(sigs_data, curve, num_bits, bits_type, h_int))
            /\ UNCHANGED <<lattice, effort>>
       ELSE /\ lattice' = build_matrix(sigs_data, curve, num_bits, bits_type, h_int)
            /\ effort' = 1
            /\ pc' = "reduce"
            /\ UNCHANGED <<ret, outcome>>
    /\ UNCHANGED <<other, inputs, n_sigs, sample_idx, sigs_data, res, steps>>

\* every step reducing the basis as built, not the previous step's output
Reduce_from_built ==
    /\ pc = "reduce"
    /\ lattice' \in reduce_lattice(build_matrix(sigs_data, curve, num_bits, bits_type, h_int),
                                   RECOVERY_SEQUENCE[effort])
    /\ steps' = Append(steps, [block_size |-> RECOVERY_SEQUENCE[effort],
                               algorithm |-> reduction_name(RECOVERY_SEQUENCE[effort]),
                               passed |-> build_matrix(sigs_data, curve, num_bits,
                                                       bits_type, h_int),
                               returned |-> lattice',
                               tested |-> None])
    /\ calls' = Called("reduce_lattice")
    /\ pc' = "test"
    /\ UNCHANGED <<other, inputs, n_sigs, sample_idx, sigs_data, effort, res, ret, outcome>>

\* for effort in RECOVERY_SEQUENCE: lattice = reduce_lattice(lattice, effort)
Reduce ==
    /\ pc = "reduce"
    /\ lattice' \in reduce_lattice(lattice, RECOVERY_SEQUENCE[effort])
    /\ steps' = Append(steps, [block_size |-> RECOVERY_SEQUENCE[effort],
                               algorithm |-> reduction_name(RECOVERY_SEQUENCE[effort]),
                               passed |-> lattice,
                               returned |-> lattice',
                               tested |-> None])
    /\ calls' = Called("reduce_lattice")
    /\ pc' = "test"
    /\ UNCHANGED <<other, inputs, n_sigs, sample_idx, sigs_data, effort, res, ret, outcome>>

\* a found key not returned: the schedule goes on
Test_keeps_going ==
    /\ pc = "test"
    /\ res' = test_result(lattice, pub_key, curve)
    /\ calls' = Called("test_result")
    /\ steps' = [steps EXCEPT ![Len(steps)].tested = Some(res')]
    /\ IF effort < Len(RECOVERY_SEQUENCE)
       THEN effort' = effort + 1 /\ pc' = "reduce" /\ UNCHANGED <<ret, outcome>>
       ELSE IF res' # 0
       THEN Return(res', "KeyFound") /\ UNCHANGED effort
       ELSE IF loop
       THEN pc' = "sample" /\ UNCHANGED <<effort, ret, outcome>>
       ELSE Return(0, "NotFound") /\ UNCHANGED effort
    /\ UNCHANGED <<other, inputs, n_sigs, sample_idx, sigs_data, lattice>>

\* the loop flag ignored: one attempt whatever it is
Test_single_attempt ==
    /\ pc = "test"
    /\ res' = test_result(lattice, pub_key, curve)
    /\ calls' = Called("test_result")
    /\ steps' = [steps EXCEPT ![Len(steps)].tested = Some(res')]
    /\ IF res' # 0
       THEN Return(res', "KeyFound") /\ UNCHANGED effort
       ELSE IF effort < Len(RECOVERY_SEQUENCE)
       THEN effort' = effort + 1 /\ pc' = "reduce" /\ UNCHANGED <<ret, outcome>>
       ELSE Return(0, "NotFound") /\ UNCHANGED effort
    /\ UNCHANGED <<other, inputs, n_sigs, sample_idx, sigs_data, lattice>>

\* res = test_result(lattice, pub_key, curve); if res: return res
\* at the end of the schedule: loop_var = loop, and return 0 when the loop ends
Test ==
    /\ pc = "test"
    /\ res' = test_result(lattice, pub_key, curve)
    /\ calls' = Called("test_result")
    /\ steps' = [steps EXCEPT ![Len(steps)].tested = Some(res')]
    /\ IF res' # 0
       THEN Return(res', "KeyFound") /\ UNCHANGED effort
       ELSE IF effort < Len(RECOVERY_SEQUENCE)
       THEN effort' = effort + 1 /\ pc' = "reduce" /\ UNCHANGED <<ret, outcome>>
       ELSE IF loop
       THEN pc' = "sample" /\ UNCHANGED <<effort, ret, outcome>>
       ELSE Return(0, "NotFound") /\ UNCHANGED effort
    /\ UNCHANGED <<other, inputs, n_sigs, sample_idx, sigs_data, lattice>>

Next == CheckBits \/ CheckSigs \/ Sample \/ Build \/ Reduce \/ Test

Spec == Init /\ [][Next]_vars

(***************************************************************************)
(* The pure functions on their own: each specification draws the           *)
(* arguments of one call and applies the function.                         *)
(***************************************************************************)
MaxSigs == 2        \* the longest sample list given to build_matrix
MaxRows == 2        \* the most rows of a matrix given to test_result

\* build_matrix: samples with r, s in [1, n-1]
BuildSamples(c) ==
    LET n == curve_n(c) IN
    {[r |-> r, s |-> s, kp |-> kh[1], hash |-> Some(kh[2])] :
        r \in {1, n - 1}, s \in {2, n - 1}, kh \in {<<0, 0>>, <<7, n + 2>>}}

SampleLists(c) == UNION {[1..m -> BuildSamples(c)] : m \in 0..MaxSigs}

InitBuild ==
    /\ curve \in ToyCurves
    /\ sigs_data \in SampleLists(curve)
    /\ h_int \in {None, Some(5)}
    /\ bits_type \in {"LSB", "MSB"}
    /\ num_bits \in 0..MaxNumBits
    /\ signatures_data = <<>>
    /\ pub_key = <<0, 0>>
    /\ loop = FALSE
    /\ pc = "call"
    /\ n_sigs = 0 /\ sample_idx = <<>> /\ lattice = <<>> /\ effort = 0
    /\ res = 0 /\ ret = 0 /\ outcome = "running" /\ steps = <<>>
    /\ calls = NoCalls
    /\ data = NoData /\ euclid = NoFrame

BuildCall ==
    /\ pc = "call"
    /\ lattice' = build_matrix(sigs_data, curve, num_bits, bits_type, h_int)
    /\ calls' = Called("build_matrix")
    /\ pc' = "returned"
    /\ UNCHANGED <<other, inputs, n_sigs, sample_idx, sigs_data, effort, res, ret,
                   outcome, steps>>

SpecBuild == InitBuild /\ [][BuildCall]_vars

\* test_result: rows <<1, e, 1>>, the entry e of the second-to-last column
\* below 0, 0, in [1, n-1], n and above
TestEntries(c) ==
    LET n == curve_n(c) IN
    {0 - n - 2, 0 - 2, 0 - 1, 0, 1, 2, 5, n - 2, n - 1, n, n + 2}

TestMatrices(c) ==
    UNION {[1..k -> {<<1, e, 1>> : e \in TestEntries(c)}] : k \in 0..MaxRows}

InitTest ==
    /\ curve \in ToyCurves
    /\ lattice \in TestMatrices(curve)
    /\ pub_key \in {privkey_to_pubkey(d, curve) : d \in Keys(curve)}
    /\ signatures_data = <<>>
    /\ h_int = None
    /\ bits_type = "LSB"
    /\ num_bits = MINIMUM_BITS
    /\ loop = FALSE
    /\ pc = "call"
    /\ n_sigs = 0 /\ sample_idx = <<>> /\ sigs_data = <<>> /\ effort = 0
    /\ res = 0 /\ ret = 0 /\ outcome = "running" /\ steps = <<>>
    /\ calls = NoCalls
    /\ data = NoData /\ euclid = NoFrame

TestCall ==
    /\ pc = "call"
    /\ res' = test_result(lattice, pub_key, curve)
    /\ calls' = Called("test_result")
    /\ pc' = "returned"
    /\ UNCHANGED <<other, inputs, n_sigs, sample_idx, sigs_data, lattice, effort, ret,
                   outcome, steps>>

SpecTest == InitTest /\ [][TestCall]_vars

\* minimum_sigs_required: every supported curve, every width in [4, B]
InitMinSigs ==
    /\ curve \in CurveNames
    /\ num_bits \in 4..curve_size(curve)
    /\ signatures_data = <<>>
    /\ h_int = None
    /\ pub_key = <<0, 0>>
    /\ bits_type = "LSB"
    /\ loop = FALSE
    /\ pc = "call"
    /\ Idle
    /\ data = NoData /\ euclid = NoFrame

MinSigsCall ==
    /\ pc = "call"
    /\ n_sigs' = minimum_sigs_required(num_bits, curve)
    /\ calls' = Called("minimum_sigs_required")
    /\ pc' = "returned"
    /\ UNCHANGED <<other, inputs, sample_idx, sigs_data, lattice, effort, res, ret,
                   outcome, steps>>

SpecMinSigs == InitMinSigs /\ [][MinSigsCall]_vars

(***************************************************************************)
(* lattice_attack_cli: the JSON object is a function from its keys; a key  *)
(* the file does not have is not in its domain.  SHA-256 is scaled down to *)
(* a one-byte digest that absorbs the bytes in order; the digest of the    *)
(* empty string is a value like any other, as it is for SHA-256.           *)
(***************************************************************************)
MaxMsgLen == 2      \* the longest message of the JSON object

DigestSize == 256   \* the number of digests of the scaled-down hash

RECURSIVE Sha2Absorb(_, _, _)
Sha2Absorb(raw_message, k, h) ==
    IF k > Len(raw_message) THEN h
    ELSE Sha2Absorb(raw_message, k + 1, (31 * h + raw_message[k] + 7) % DigestSize)

\* bytes_to_int(sha2(data))
sha2_int(raw_message) == Sha2Absorb(raw_message, 1, 106)

\* dict.get: the value of the key, or None when the key is absent
dict_get(d, key) == IF key \in DOMAIN d THEN Some(d[key]) ELSE None

\* Python's truth value of what dict.get returned for "message": None and
\* the empty list are false
Truthy(value) == value # None /\ value[1] # <<>>

CoefB == [c \in ToyCurves |-> 6]

\* check_publickey: the point satisfies the curve equation
check_publickey(pubkey, curve_str) ==
    LET p == FieldP[curve_str] IN
    /\ Len(pubkey) = 2
    /\ pubkey[1] \in 0..(p - 1)
    /\ pubkey[2] \in 0..(p - 1)
    /\ (pubkey[2] * pubkey[2]) % p =
       (pubkey[1] * pubkey[1] * pubkey[1] + CoefA[curve_str] * pubkey[1]
            + CoefB[curve_str]) % p

\* the signature lists of the file: the pools of the driver, the same with
\* s = 0 in the first sample, and either without the "hash" key in every
\* sample (hash is None here)
CliSignatures(c) ==
    LET with_hash == Pools(c) \cup
            {[i \in 1..len |-> IF i = 1 THEN [SampleAt(c, i) EXCEPT !.s = 0]
                                        ELSE SampleAt(c, i)] : len \in 1..MaxPool}
    IN with_hash \cup
       {[i \in DOMAIN sigs |-> [sigs[i] EXCEPT !.hash = None]] : sigs \in with_hash}

Messages == UNION {[1..k -> {0, 97}] : k \in 0..MaxMsgLen}

CliFiles ==
    LET required ==
            {[k \in {"curve", "known_type", "known_bits", "signatures", "public_key"} |->
                CASE k = "curve" -> c
                  [] k = "known_type" -> t
                  [] k = "known_bits" -> b
                  [] k = "signatures" -> sigs
                  [] k = "public_key" -> q] :
              c \in ToyCurves, t \in {"LSB", "MSB"},
              b \in {MINIMUM_BITS - 1, MINIMUM_BITS},
              sigs \in UNION {CliSignatures(cc) : cc \in ToyCurves},
              q \in {<<2, 7>>, <<1, 3>>, <<0, 0>>}}
    IN required \cup
       {d @@ ("message" :> m) : d \in required, m \in Messages}

InitCli ==
    /\ data \in {d \in CliFiles :
                    d["signatures"] \in CliSignatures(d["curve"])}
    /\ loop \in BOOLEAN
    /\ signatures_data = <<>>
    /\ h_int = None
    /\ pub_key = <<>>
    /\ curve = ""
    /\ bits_type = ""
    /\ num_bits = 0
    /\ pc = "cli"
    /\ Idle
    /\ euclid = NoFrame

\* message = data.get("message"); if message: hash_int = sha2_int(bytes(message))
\* else: hash_int = None; ...; if not check_publickey(...): return;
\* result = recover_private_key(...)
LoadCli ==
    /\ pc = "cli"
    /\ LET message == dict_get(data, "message") IN
       h_int' = IF Truthy(message) THEN Some(sha2_int(message[1])) ELSE None
    /\ curve' = data["curve"]
    /\ bits_type' = data["known_type"]
    /\ num_bits' = data["known_bits"]
    /\ signatures_data' = data["signatures"]
    /\ pub_key' = data["public_key"]
    /\ IF ~check_publickey(data["public_key"], data["curve"])
       THEN Return(0, "InvalidPublicKey")
       ELSE pc' = "check_bits" /\ UNCHANGED <<ret, outcome>>
    /\ UNCHANGED <<other, loop, n_sigs, sample_idx, sigs_data, lattice, effort,
                   res, steps, calls>>

NextCli == LoadCli \/ CheckBits \/ CheckSigs \/ Sample \/ Build \/ Reduce \/ Test

SpecCli == InitCli /\ [][NextCli]_vars

(***************************************************************************)
(* ecdsa_lib.inverse_mod step by step: the normalisation of a_num, one     *)
(* action per iteration of the while loop, the return.  divmod(j, 0)       *)
(* raises ZeroDivisionError.  The loop runs until it returns or raises,    *)
(* hence the weak fairness of FairInverse.                                 *)
(***************************************************************************)
MaxArg == 40        \* a_num ranges over -MaxArg..MaxArg

Moduli == {2, 3, 5, 7, 13, 37}

InitInverse ==
    /\ euclid \in {[a_num |-> a, m_mod |-> m, i |-> 0, j |-> 0, x_a |-> 0, x_b |-> 0] :
                      a \in (0 - MaxArg)..MaxArg, m \in Moduli}
    /\ signatures_data = <<>>
    /\ h_int = None
    /\ pub_key = <<0, 0>>
    /\ curve = "TOY4"
    /\ bits_type = "LSB"
    /\ num_bits = MINIMUM_BITS
    /\ loop = FALSE
    /\ pc = "call"
    /\ Idle
    /\ data = NoData

\* if a_num < 0 or m_mod <= a_num: a_num = a_num % m_mod
\* i, j = a_num, m_mod; x_a, x_b = 1, 0
InverseEnter ==
    /\ pc = "call"
    /\ euclid' = [euclid EXCEPT
                    !.i = IF euclid.a_num < 0 \/ euclid.m_mod <= euclid.a_num
                          THEN euclid.a_num % euclid.m_mod
                          ELSE euclid.a_num,
                    !.j = euclid.m_mod,
                    !.x_a = 1,
                    !.x_b = 0]
    /\ pc' = "while"
    /\ UNCHANGED <<data, inputs, n_sigs, sample_idx, sigs_data, lattice, effort,
                   res, ret, outcome, steps, calls>>

\* while i != 1: quot, rem = divmod(j, i); x_rem = x_b - quot * x_a
\*               j, i, x_b, x_a = i, rem, x_a, x_rem
InverseStep ==
    /\ pc = "while"
    /\ euclid.i # 1
    /\ IF euclid.i = 0
       THEN /\ pc' = "raised"
            /\ outcome' = "ZeroDivisionError"
            /\ UNCHANGED euclid
       ELSE /\ LET quot == euclid.j \div euclid.i
                   rem == euclid.j % euclid.i
                   x_rem == euclid.x_b - quot * euclid.x_a
               IN euclid' = [euclid EXCEPT !.j = euclid.i, !.i = rem,
                                           !.x_b = euclid.x_a, !.x_a = x_rem]
            /\ UNCHANGED <<pc, outcome>>
    /\ UNCHANGED <<data, inputs, n_sigs, sample_idx, sigs_data, lattice, effort,
                   res, ret, steps, calls>>

\* the last reduction left out: return x_a
InverseReturn_raw ==
    /\ pc = "while"
    /\ euclid.i = 1
    /\ ret' = euclid.x_a
    /\ outcome' = "ok"
    /\ pc' = "returned"
    /\ UNCHANGED <<other, inputs, n_sigs, sample_idx, sigs_data, lattice, effort,
                   res, steps, calls>>

\* return x_a % m_mod
InverseReturn ==
    /\ pc = "while"
    /\ euclid.i = 1
    /\ ret' = euclid.x_a % euclid.m_mod
    /\ outcome' = "ok"
    /\ pc' = "returned"
    /\ UNCHANGED <<other, inputs, n_sigs, sample_idx, sigs_data, lattice, effort,
                   res, steps, calls>>

NextInverse == InverseEnter \/ InverseStep \/ InverseReturn

SpecInverse == InitInverse /\ [][NextInverse]_vars

FairInverse == SpecInverse /\ WF_vars(NextInverse)

(***************************************************************************)
(* Properties of the driver (specification Spec).                          *)
(***************************************************************************)
Built == build_matrix(sigs_data, curve, num_bits, bits_type, h_int)

\* C1: within one attempt the reductions run in the order LLL, BKZ 15, 25,
\* 40, 50, 60, none skipped or reordered; each is passed the basis the
\* previous one returned, the first the basis build_matrix returned.
C1_ScheduleOrder ==
    LET schedule == <<None, Some(15), Some(25), Some(40), Some(50), Some(60)>> IN
    /\ Len(steps) <= 6
    /\ \A k \in 1..Len(steps) :
         /\ steps[k].block_size = schedule[k]
         /\ steps[k].algorithm = (IF k = 1 THEN "LLL" ELSE "BKZ")
         /\ steps[k].passed = (IF k = 1 THEN Built ELSE steps[k - 1].returned)
    /\ pc = "reduce" => Len(steps) = effort - 1
    /\ pc = "test" => Len(steps) = effort
    /\ (outcome = "NotFound" \/ (pc = "sample" /\ calls.sample > 0)) => Len(steps) = 6

\* the sixth step of an attempt ran on a basis the earlier steps changed
C1_Witness ==
    /\ pc = "test"
    /\ Len(steps) = 6
    /\ steps[6].block_size = Some(60)
    /\ steps[6].passed # steps[1].passed
    /\ steps[6].passed = steps[5].returned

\* C2: test_result runs on the output of every reduction before the next
\* reduction; the first key it reports is returned at once, with no further
\* reduction, sample or loop iteration, whatever loop is.
C2_ReturnOnFirstKey ==
    /\ calls.reduce_lattice = calls.test_result + (IF pc = "test" THEN 1 ELSE 0)
    /\ \A k \in 1..Len(steps) :
         /\ (steps[k].tested = None) <=> (pc = "test" /\ k = Len(steps))
         /\ steps[k].tested # None =>
              steps[k].tested[1] = test_result(steps[k].returned, pub_key, curve)
         /\ k < Len(steps) => steps[k].tested = Some(0)
         /\ (steps[k].tested # None /\ steps[k].tested # Some(0)) =>
              /\ pc = "done"
              /\ outcome = "KeyFound"
              /\ ret = steps[k].tested[1]
    /\ outcome = "KeyFound" =>
         /\ steps # <<>>
         /\ ret # 0
         /\ ret = res
         /\ Some(ret) = steps[Len(steps)].tested
         /\ ~ENABLED Next

\* a key found at the third step of an attempt, with loop set
C2_Witness ==
    /\ outcome = "KeyFound"
    /\ loop
    /\ Len(steps) = 3
    /\ calls.reduce_lattice = 3

\* a problem instance: every s has an inverse mod n, and every sample has a
\* hash when there is no global one
ValidInstance ==
    \A i \in 1..Len(signatures_data) :
        /\ ~inverse_mod_raises(signatures_data[i].s, curve_n(curve))
        /\ h_int = None => signatures_data[i].hash # None

PassesPreconditions ==
    /\ num_bits >= 4
    /\ Len(signatures_data) >= minimum_sigs_required(num_bits, curve)

\* C3: for an instance that passes both preconditions the outer loop runs
\* at least once; with loop false an attempt whose six steps find no key is
\* the only one, and the driver returns 0 (NotFound) after six reductions;
\* with loop true the six steps exhausted lead back to the outer loop, and
\* the run ends only with a key.
C3_LoopTermination ==
    (ValidInstance /\ PassesPreconditions) =>
        /\ pc = "done" => (calls.sample >= 1 /\ outcome \in {"KeyFound", "NotFound"})
        /\ pc \notin {"check_bits", "check_sigs", "done"} =>
              (ENABLED Next \/ (loop /\ pc = "sample" /\ calls.sample = MaxAttempts))
        /\ ~loop =>
              /\ calls.sample <= 1
              /\ calls.reduce_lattice <= 6
              /\ pc = "sample" => calls.sample = 0
        /\ outcome = "NotFound" =>
              /\ ~loop
              /\ pc = "done"
              /\ ret = 0
              /\ calls.sample = 1
              /\ calls.reduce_lattice = 6
              /\ calls.test_result = 6
        /\ (loop /\ pc = "done") => (outcome = "KeyFound" /\ ret # 0)
        /\ (loop /\ pc = "sample") => calls.reduce_lattice = 6 * calls.sample

\* with loop set, a key found in the second attempt, after a first attempt
\* of six reductions
C3_Witness ==
    /\ ValidInstance
    /\ PassesPreconditions
    /\ loop
    /\ outcome = "KeyFound"
    /\ calls.sample = 2
    /\ calls.reduce_lattice > 6

\* C4: with num_bits < 4 (negative and 0 included) the driver fails at once
\* with the insufficient-leakage outcome, whatever the pool and loop are:
\* minimum_sigs_required, the sampling, build_matrix and reduce_lattice are
\* never called.
C4_InsufficientLeakage ==
    num_bits < 4 =>
        /\ pc \in {"check_bits", "done"}
        /\ pc = "done" => (outcome = "InsufficientLeakage" /\ ret = 0)
        /\ calls = NoCalls
        /\ lattice = <<>>
        /\ sigs_data = <<>>
        /\ steps = <<>>

\* the driver returned on a width of 0, with a pool of MaxPool samples
C4_Witness ==
    /\ num_bits = 0
    /\ Len(signatures_data) = MaxPool
    /\ loop
    /\ pc = "done"
    /\ outcome = "InsufficientLeakage"

\* C5: with num_bits >= 4 and fewer signatures than
\* n_req = minimum_sigs_required(num_bits, curve) the driver fails at once
\* with the not-enough-signatures outcome, before any sampling, build or
\* reduction; with at least n_req it goes on to the first attempt.
C5_NotEnoughSignatures ==
    (num_bits >= 4 /\ pc \notin {"check_bits", "check_sigs"}) =>
        /\ n_sigs = minimum_sigs_required(num_bits, curve)
        /\ calls.minimum_sigs_required = 1
        /\ IF Len(signatures_data) < n_sigs
           THEN /\ pc = "done"
                /\ outcome = "NotEnoughSignatures"
                /\ ret = 0
                /\ calls.sample = 0
                /\ calls.build_matrix = 0
                /\ calls.reduce_lattice = 0
                /\ lattice = <<>>
           ELSE /\ outcome # "NotEnoughSignatures"
                /\ (pc = "sample" /\ ENABLED Sample) \/ calls.sample >= 1

\* one signature short: 1 given, 2 needed
C5_Witness ==
    /\ num_bits >= 4
    /\ n_sigs = 2
    /\ Len(signatures_data) = 1
    /\ pc = "done"
    /\ outcome = "NotEnoughSignatures"

\* the subset of the current attempt and the basis its schedule started on
SubsetOfPool ==
    /\ calls.sample > 0 =>
         /\ n_sigs = minimum_sigs_required(num_bits, curve)
         /\ Len(sample_idx) = n_sigs
         /\ Len(sigs_data) = n_sigs
         /\ \A a \in 1..n_sigs :
              /\ sample_idx[a] \in 1..Len(signatures_data)
              /\ sigs_data[a] = signatures_data[sample_idx[a]]
         /\ \A a, b \in 1..n_sigs : a # b => sample_idx[a] # sample_idx[b]
    /\ pc = "build" => (steps = <<>> /\ calls.build_matrix = calls.sample - 1)
    /\ pc \in {"reduce", "test"} => calls.build_matrix = calls.sample
    /\ (pc = "reduce" /\ effort = 1) => (steps = <<>> /\ lattice = Built)
    /\ steps # <<>> => (steps[1].passed = Built /\ steps[1].block_size = None)

\* C7: the working subset of every attempt is n_req samples at distinct
\* positions of the pool (none taken twice, each a pool element); the pool
\* is never modified, and every attempt, the first and each re-entry of the
\* outer loop, builds its basis from its own subset and starts the schedule
\* on that unreduced basis at LLL.
C7_FreshSubsample == [](SubsetOfPool) /\ [][signatures_data' = signatures_data]_vars

\* the second attempt, on 2 of 3 samples taken in another order than the
\* pool's, about to reduce the basis just built
C7_Witness ==
    /\ calls.sample = 2
    /\ Len(signatures_data) = 3
    /\ n_sigs = 2
    /\ sample_idx = <<3, 1>>
    /\ pc = "reduce"
    /\ effort = 1
    /\ lattice = Built

(***************************************************************************)
(* Properties of minimum_sigs_required (specification SpecMinSigs).        *)
(***************************************************************************)
CeilDiv(a, b) == (a + b - 1) \div b

\* C6, as claimed: for every supported curve of bit-size B and every width
\* l in [4, B], minimum_sigs_required(l, curve) is the ceiling of
\* 103*B / (75*l).
C6_Ceiling ==
    pc = "returned" => n_sigs = CeilDiv(103 * curve_size(curve), 75 * num_bits)

\* C6, as the code has it: for every supported curve of bit-size B and every
\* width l in [4, B], minimum_sigs_required(l, curve) is 103*B / (75*l)
\* truncated, the largest k with 75*l*k <= 103*B, one less than the ceiling.
C6_Truncated ==
    pc = "returned" =>
        /\ 75 * num_bits * n_sigs <= 103 * curve_size(curve)
        /\ 103 * curve_size(curve) < 75 * num_bits * (n_sigs + 1)
        /\ n_sigs = CeilDiv(103 * curve_size(curve), 75 * num_bits) - 1

\* SECP256K1 with 6 bits: 58, where the ceiling is 59
C6_Witness ==
    /\ pc = "returned"
    /\ curve = "SECP256K1"
    /\ num_bits = 6
    /\ n_sigs = 58

(***************************************************************************)
(* Properties of build_matrix (specification SpecBuild).                   *)
(***************************************************************************)
\* C8: for m samples with r, s in [1, n-1], either known_type and any
\* width, build_matrix returns an (m+2) x (m+2) matrix with 2*2^l*n on the
\* first m diagonal places, 1 and n on the last two, nonzero entries in the
\* first m places of the last two rows and 0 elsewhere: 3m + 2 nonzero
\* entries.
C8_BasisShape ==
    pc = "returned" =>
        LET m == Len(sigs_data)
            n == curve_n(curve)
            dim == 1..(m + 2)
            canonical(i, j) == (i <= m /\ j = i) \/ (i > m /\ j <= m)
                               \/ (i > m /\ j = i)
        IN /\ Len(lattice) = m + 2
           /\ \A i \in dim : Len(lattice[i]) = m + 2
           /\ \A i \in 1..m :
                /\ lattice[i][i] = 2 * Pow2(num_bits) * n
                /\ lattice[m + 1][i] # 0
                /\ lattice[m + 2][i] # 0
           /\ lattice[m + 1][m + 1] = 1
           /\ lattice[m + 2][m + 2] = n
           /\ \A i, j \in dim : ~canonical(i, j) => lattice[i][j] = 0
           /\ Cardinality({ij \in dim \X dim : lattice[ij[1]][ij[2]] # 0}) = 3 * m + 2

\* two samples, the MSB case, a sample with kp = 0 and hash 0
C8_Witness ==
    /\ pc = "returned"
    /\ Len(sigs_data) = 2
    /\ bits_type = "MSB"
    /\ h_int = None
    /\ sigs_data[1].kp = 0
    /\ sigs_data[1].hash = Some(0)
    /\ Len(lattice) = 4

\* the inverse of a mod n in [0, n-1], by its definition
ModInverse(a, n) == CHOOSE x \in 0..(n - 1) : ((a % n) * x) % n = 1

\* C9: with K = 2^l, C = 2^B for the bit-size B of the given curve, and h_i
\* the global hash when there is one and the sample's own otherwise, the two
\* bottom rows hold, for every sample i,
\*   LSB: 2K (K^-1 r_i s_i^-1 mod n)   and  2K (K^-1 (kp_i - h_i s_i^-1) mod n) + n
\*   MSB: 2K (r_i s_i^-1 mod n)        and  2K (kp_i (C div K) - h_i s_i^-1) + n
C9_BottomRows ==
    pc = "returned" =>
        LET m == Len(sigs_data)
            n == curve_n(curve)
            K == Pow2(num_bits)
            C == Pow2(curve_size(curve))
            Kinv == ModInverse(K, n)
            h(i) == IF h_int # None THEN h_int[1] ELSE sigs_data[i].hash[1]
            sinv(i) == ModInverse(sigs_data[i].s, n)
        IN \A i \in 1..m :
             LET r == sigs_data[i].r
                 kp == sigs_data[i].kp
             IN IF bits_type = "LSB"
                THEN /\ lattice[m + 1][i] = 2 * K * ((Kinv * r * sinv(i)) % n)
                     /\ \E x \in 0..(n - 1) :
                          /\ (K * x - (kp - h(i) * sinv(i))) % n = 0
                          /\ lattice[m + 2][i] = 2 * K * x + n
                ELSE /\ lattice[m + 1][i] = 2 * K * ((r * sinv(i)) % n)
                     /\ lattice[m + 2][i] =
                          2 * K * (kp * (C \div K) - h(i) * sinv(i)) + n

\* the MSB case on the 4-bit curve, with per-sample hashes and a kp # 0
C9_Witness ==
    /\ pc = "returned"
    /\ curve = "TOY4"
    /\ bits_type = "MSB"
    /\ num_bits = 4
    /\ h_int = None
    /\ Len(sigs_data) = 2
    /\ sigs_data[2].kp # 0

(***************************************************************************)
(* Properties of test_result (specification SpecTest).                     *)
(***************************************************************************)
\* C10: with c the second-to-last entry of a row mod n, test_result returns
\* 0 exactly when no row has c # 0 with derive(c) = Q or derive(n - c) = Q;
\* a value it returns other than 0 is in [1, n-1] and derives Q; and when
\* derive(d) = Q, a row carrying d or n - d makes it return d, n - d not
\* deriving Q.
C10_Extractor ==
    pc = "returned" =>
        LET n == curve_n(curve)
            c(k) == lattice[k][Len(lattice[k]) - 1] % n
            matches(k) == /\ c(k) # 0
                          /\ \/ privkey_to_pubkey(c(k), curve) = pub_key
                             \/ privkey_to_pubkey(n - c(k), curve) = pub_key
        IN /\ (res = 0) <=> (\A k \in 1..Len(lattice) : ~matches(k))
           /\ res # 0 => (res \in 1..(n - 1) /\ privkey_to_pubkey(res, curve) = pub_key)
           /\ \A d \in 1..(n - 1) :
                privkey_to_pubkey(d, curve) = pub_key =>
                    /\ privkey_to_pubkey(n - d, curve) # pub_key
                    /\ (\E k \in 1..Len(lattice) : c(k) \in {d, n - d}) => res = d

\* the key 2 returned from a row carrying n - 2 as -2, after a row to skip
\* and a row that matches nothing
C10_Witness ==
    /\ pc = "returned"
    /\ pub_key = privkey_to_pubkey(2, curve)
    /\ Len(lattice) = 2
    /\ lattice[1][2] \in {0, 5}
    /\ lattice[2][2] = 0 - 2
    /\ res = 2

(***************************************************************************)
(* Properties of the adapter (specification SpecCli).                      *)
(***************************************************************************)
\* C11: once lattice_attack_cli has read the object, the global hash is the
\* digest of the message bytes whenever the key "message" is present, the
\* empty list included, and every basis is then built with that one hash
\* for all samples; the hash is None, and the per-sample hash fields are
\* used, only when the key is absent.
C11_GlobalHashIffKeyPresent ==
    pc # "cli" =>
        /\ "message" \in DOMAIN data =>
             /\ h_int = Some(sha2_int(data["message"]))
             /\ outcome # "KeyError"
             /\ pc = "reduce" =>
                  lattice = build_matrix(sigs_data, curve, num_bits, bits_type,
                                         Some(sha2_int(data["message"])))
        /\ "message" \notin DOMAIN data => h_int = None

(***************************************************************************)
(* Properties of inverse_mod (specification FairInverse).                  *)
(***************************************************************************)
\* a_num mod m_mod is in [1, m_mod - 1]
UnitArgument == euclid.a_num % euclid.m_mod # 0

\* the call has ended and its result is the inverse, in [0, m_mod - 1]
ReturnedInverse ==
    /\ pc = "returned"
    /\ ret \in 0..(euclid.m_mod - 1)
    /\ (euclid.a_num * ret) % euclid.m_mod = 1

\* C12: for a prime modulus n and every a with a mod n in [1, n-1], negative
\* a and a >= n included, inverse_mod(a, n) terminates, does not raise, and
\* returns x in [0, n-1] with (a * x) mod n = 1.
C12_InverseOfUnit ==
    /\ [](UnitArgument /\ pc \in {"returned", "raised"} => ReturnedInverse)
    /\ <>(UnitArgument => pc = "returned")

\* a negative argument and one above the modulus, after at least one
\* iteration of the loop
C12_Witness ==
    /\ ReturnedInverse
    /\ euclid.m_mod = 37
    /\ euclid.a_num \in {0 - 5, 37 + 5}
    /\ euclid.x_b # 0
    /\ ret = inverse_mod(euclid.a_num, euclid.m_mod)

(***************************************************************************)
(* Degenerate samples (specification Spec).                                *)
(***************************************************************************)
\* build_matrix has run on a working subset with an s that is 0 mod n
DegenerateSubsetBuilt ==
    /\ pc \in {"reduce", "test", "done"}
    /\ \E i \in DOMAIN sigs_data : sigs_data[i].s % curve_n(curve) = 0

\* what the code does then: the ZeroDivisionError of divmod leaves
\* inverse_mod, build_matrix and recover_private_key as it is, and no
\* reduction has run on the subset
RaisedBeforeReduction ==
    DegenerateSubsetBuilt =>
        /\ pc = "done"
        /\ outcome = "ZeroDivisionError"
        /\ steps = <<>>
        /\ \A i \in DOMAIN sigs_data :
             sigs_data[i].s % curve_n(curve) = 0 =>
                InverseRun(sigs_data[i].s, curve_n(curve)) = <<"ZeroDivisionError", 0>>

\* C13: when a sample of the chosen subset has an s that is 0 mod n, the
\* inverse fails instead of looping or returning a value, basis
\* construction reports it as a BadInput error, and no reduction runs on a
\* basis containing that sample.
C13_SurfacedAsBadInput ==
    DegenerateSubsetBuilt =>
        /\ pc = "done"
        /\ outcome = "BadInput"
        /\ steps = <<>>

====
